---- MODULE Spec2Model ----
(***************************************************************************)
(* Model of the autopilot heading-to-steer plugin (BOD heading hold and    *)
(* APB rhumb-line track hold).  The state is the plugin's module-level     *)
(* variables and the host's live timers; the operations are plugin.start,  *)
(* plugin.stop, the POST /cmd handler and the interval callback.  The      *)
(* host's telemetry store and clock are inputs: each handler reads the     *)
(* snapshot (store, clock reading) it is given.                            *)
(*                                                                         *)
(* Numbers: every JavaScript number is held as an integer count of         *)
(* hundredths (40000 is 400.00), so angles are centidegrees and a rounding *)
(* to 0.1 degree is a rounding to a multiple of 10.  A nullable value is   *)
(* the empty tuple (null) or a one-element tuple.  A string is a tuple of  *)
(* one-character strings; lastSentence keeps its text as one string.       *)
(*                                                                         *)
(* lastStatus (written by every tick, read by nothing) is not kept.        *)
(***************************************************************************)
EXTENDS Integers, Sequences, FiniteSets, TLC

\* ------------------------------------------------------------------ bounds
\* Largest number of handler runs (start, stop, command, tick) in one
\* behaviour.
MaxOps == 4
\* Largest number of interval timers the host can hold at once.
MaxTimers == 2
\* The clock readings are 0 and MaxNow milliseconds.
MaxNow == 6000
\* The angles given to wrap360 on its own reach MaxAngle hundredths of a degree
\* either side of zero.
MaxAngle == 36010

\* ------------------------------------------------------- nullable values
Null == <<>>
Some(x) == <<x>>
Val(o) == o[1]

\* --------------------------------------------------- JavaScript values
\* t is the typeof tag; n the number in hundredths; s the characters.
JsUndefined == [t |-> "undefined", n |-> 0, s |-> <<>>]
JsNull == [t |-> "null", n |-> 0, s |-> <<>>]
JsNum(c) == [t |-> "number", n |-> c, s |-> <<>>]
JsStr(chars) == [t |-> "string", n |-> 0, s |-> chars]
JsBool(b) == [t |-> "boolean", n |-> IF b THEN 100 ELSE 0, s |-> <<>>]

\* A JavaScript number: NaN, an infinity, or a finite count of hundredths.
NaN == [k |-> "nan", n |-> 0]
Infinity == [k |-> "inf", n |-> 0]
Fin(c) == [k |-> "fin", n |-> c]

DigitChars == <<"0", "1", "2", "3", "4", "5", "6", "7", "8", "9">>
DigitOf(ch) == CHOOSE i \in 0..9 : DigitChars[i + 1] = ch
IsDigit(ch) == \E i \in 1..10 : DigitChars[i] = ch
IsSpace(ch) == ch \in {" ", "\t", "\n", "\r"}

RECURSIVE TrimLeft(_)
TrimLeft(s) == IF s # <<>> /\ IsSpace(Head(s)) THEN TrimLeft(Tail(s)) ELSE s
RECURSIVE TrimRight(_)
TrimRight(s) ==
  IF s # <<>> /\ IsSpace(s[Len(s)]) THEN TrimRight(SubSeq(s, 1, Len(s) - 1)) ELSE s
\* String.prototype.trim
Trim(s) == TrimRight(TrimLeft(s))

RECURSIVE DigitsValue(_)
DigitsValue(s) ==
  IF s = <<>> THEN 0 ELSE 10 * DigitsValue(SubSeq(s, 1, Len(s) - 1)) + DigitOf(s[Len(s)])

\* Number(string): blank text is 0, a signed run of digits is its value,
\* "Infinity" is infinite, anything else NaN (fractions, exponents and hex
\* literals are outside the strings the model sends).
TrimmedToNumber(t) ==
  LET signed == t # <<>> /\ Head(t) \in {"+", "-"}
      body == IF signed THEN Tail(t) ELSE t
  IN  IF t = <<>> THEN Fin(0)
      ELSE IF body = <<"I", "n", "f", "i", "n", "i", "t", "y">> THEN Infinity
      ELSE IF body # <<>> /\ \A i \in 1..Len(body) : IsDigit(body[i])
        THEN Fin((IF signed /\ Head(t) = "-" THEN -100 ELSE 100) * DigitsValue(body))
      ELSE NaN
StringToNumber(s) == TrimmedToNumber(Trim(s))

\* Number(v)
ToNumber(v) ==
  CASE v.t = "number" -> Fin(v.n)
    [] v.t = "string" -> StringToNumber(v.s)
    [] v.t = "boolean" -> Fin(v.n)
    [] v.t = "null" -> Fin(0)
    [] OTHER -> NaN

\* Number.isFinite
IsFinite(x) == x.k = "fin"

\* JavaScript truthiness, as used by !!x and x || y
Truthy(v) ==
  CASE v.t = "number" -> v.n # 0
    [] v.t = "string" -> v.s # <<>>
    [] v.t = "boolean" -> v.n # 0
    [] OTHER -> FALSE
OrElse(v, d) == IF Truthy(v) THEN v ELSE d

\* ------------------------------------------------------------- arithmetic
Abs(x) == IF x < 0 THEN -x ELSE x
Min(a, b) == IF a < b THEN a ELSE b
Max(a, b) == IF a > b THEN a ELSE b
\* a % m of JavaScript: the sign follows the dividend
JsRem(a, m) == IF a >= 0 THEN a % m ELSE -((-a) % m)
\* Math.round(p / q) for q > 0: to the nearest, halves towards +infinity
RoundDiv(p, q) == (2 * p + q) \div (2 * q)

\* wrap360: reduce to [0,360) and round to 0.1 degree
wrap360(deg) ==
  LET d0 == JsRem(deg, 36000)
      d == IF d0 < 0 THEN d0 + 36000 ELSE d0
  IN  RoundDiv(d, 10) * 10

\* radToDeg, with pi taken as 355/113: hundredths of a radian to centidegrees
radToDeg(r) == RoundDiv(r * 20340, 355)
\* Math.PI * 2 + 0.5 = 6.7831..., in hundredths
RadianLimit == 678

\* ------------------------------------------------------ telemetry store
\* What app.getSelfPath(path) holds for the six paths the plugin reads.  An
\* angle path holds a JavaScript value (JsUndefined when the path is
\* absent).  The position path holds a value, which is an object with
\* latitude and longitude, or something else, and a timestamp, which is
\* absent, an ISO date (ms since the epoch), or text that is not a date.
PosObject(lat, lon) == [t |-> "object", latitude |-> lat, longitude |-> lon]
PosAbsent == [t |-> "undefined", latitude |-> JsUndefined, longitude |-> JsUndefined]
PosScalar == [t |-> "number", latitude |-> JsUndefined, longitude |-> JsUndefined]
TsAbsent == [t |-> "undefined", ms |-> 0]
TsIso(ms) == [t |-> "iso", ms |-> ms]
TsText == [t |-> "text", ms |-> 0]

\* Date.parse(ts); times count milliseconds from an instant after the epoch,
\* so that a parsed timestamp is never the falsy 0
DateParse(ts) == IF ts.t = "iso" THEN Fin(ts.ms * 100) ELSE NaN

\* readPosition(path): null unless the value is an object whose latitude and
\* longitude are finite numbers; timestampMs is null unless the timestamp parses
positionOf(v, lat, lon, timestampMs) ==
  IF v.t # "object" THEN Null
  ELSE IF ~IsFinite(lat) \/ ~IsFinite(lon) THEN Null
  ELSE Some([lat |-> lat.n, lon |-> lon.n,
             timestampMs |-> IF IsFinite(timestampMs)
                               THEN Some(timestampMs.n \div 100) ELSE Null])
readPosition(entry) ==
  positionOf(entry.value, ToNumber(entry.value.latitude), ToNumber(entry.value.longitude),
             IF entry.timestamp.t # "undefined" THEN DateParse(entry.timestamp) ELSE NaN)

\* readAngleDeg(path): degrees in tenths, from radians or degrees
angleOf(v, num) ==
  IF v.t \in {"undefined", "null"} THEN Null
  ELSE IF ~IsFinite(num) THEN Null
  ELSE Some(wrap360(IF Abs(num.n) <= RadianLimit THEN radToDeg(num.n) ELSE num.n))
readAngleDeg(v) == angleOf(v, ToNumber(v))

\* The telemetry paths, at their defaults
PathCogMag == "navigation.courseOverGroundMagnetic"
PathCogTrue == "navigation.courseOverGroundTrue"
PathHdgMag == "navigation.headingMagnetic"
PathHdgTrue == "navigation.headingTrue"

\* (variant: the heading is tried before the COG derived from true)
bestOfHeadingBeforeTrue(pos, variation, cogMag, cogTrue, hdgMag, hdgTrue, t, gpsStaleSeconds) ==
  LET posFresh == IF pos # Null /\ Val(pos).timestampMs # Null
                    THEN /\ IsFinite(gpsStaleSeconds)
                         /\ t - Val(Val(pos).timestampMs) <= gpsStaleSeconds.n * 10
                    ELSE FALSE
      cogFromTrue == cogMag = Null /\ hdgMag = Null /\ cogTrue # Null /\ variation # Null
      cog1 == IF cogFromTrue THEN Some(wrap360(Val(cogTrue) - Val(variation))) ELSE cogMag
      cogSrc1 == IF cogFromTrue THEN Some(PathCogTrue \o " + variation")
                 ELSE IF cogMag # Null THEN Some(PathCogMag) ELSE Null
      cogFromHdg == cog1 = Null /\ hdgMag # Null
      bestCogMagDeg == IF cogFromHdg THEN hdgMag ELSE cog1
      cogSource == IF cogFromHdg THEN Some(PathHdgMag \o " (fallback)") ELSE cogSrc1
      hdgFromTrue == hdgMag = Null /\ hdgTrue # Null /\ variation # Null
      bestHdgMagDeg == IF hdgFromTrue THEN Some(wrap360(Val(hdgTrue) - Val(variation)))
                       ELSE hdgMag
      hdgSource == IF hdgFromTrue THEN Some(PathHdgTrue \o " + variation")
                   ELSE IF hdgMag # Null THEN Some(PathHdgMag) ELSE Null
  IN  [position |-> IF pos # Null THEN Some([lat |-> Val(pos).lat, lon |-> Val(pos).lon])
                    ELSE Null,
       positionFresh |-> posFresh,
       variationDeg |-> variation,
       cogMagDeg |-> bestCogMagDeg,
       cogMagSource |-> cogSource,
       headingMagDeg |-> bestHdgMagDeg,
       headingMagSource |-> hdgSource]

\* (variant: a missing heading is taken from the COG)
bestOfHeadingFromCog(pos, variation, cogMag, cogTrue, hdgMag, hdgTrue, t, gpsStaleSeconds) ==
  LET posFresh == IF pos # Null /\ Val(pos).timestampMs # Null
                    THEN /\ IsFinite(gpsStaleSeconds)
                         /\ t - Val(Val(pos).timestampMs) <= gpsStaleSeconds.n * 10
                    ELSE FALSE
      cogFromTrue == cogMag = Null /\ cogTrue # Null /\ variation # Null
      cog1 == IF cogFromTrue THEN Some(wrap360(Val(cogTrue) - Val(variation))) ELSE cogMag
      cogSrc1 == IF cogFromTrue THEN Some(PathCogTrue \o " + variation")
                 ELSE IF cogMag # Null THEN Some(PathCogMag) ELSE Null
      cogFromHdg == cog1 = Null /\ hdgMag # Null
      bestCogMagDeg == IF cogFromHdg THEN hdgMag ELSE cog1
      cogSource == IF cogFromHdg THEN Some(PathHdgMag \o " (fallback)") ELSE cogSrc1
      hdgFromTrue == hdgMag = Null /\ hdgTrue # Null /\ variation # Null
      bestHdgMagDeg == IF hdgFromTrue THEN Some(wrap360(Val(hdgTrue) - Val(variation)))
                       ELSE IF hdgMag # Null THEN hdgMag ELSE cog1
      hdgSource == IF hdgFromTrue THEN Some(PathHdgTrue \o " + variation")
                   ELSE IF hdgMag # Null THEN Some(PathHdgMag) ELSE Null
  IN  [position |-> IF pos # Null THEN Some([lat |-> Val(pos).lat, lon |-> Val(pos).lon])
                    ELSE Null,
       positionFresh |-> posFresh,
       variationDeg |-> variation,
       cogMagDeg |-> bestCogMagDeg,
       cogMagSource |-> cogSource,
       headingMagDeg |-> bestHdgMagDeg,
       headingMagSource |-> hdgSource]

\* computeStatus(PATHS, gpsStaleSeconds): the `best` part of the status, for
\* the store st read at clock reading t.  gpsStaleSeconds is a JavaScript
\* number; a comparison with NaN is false.
bestOf(pos, variation, cogMag, cogTrue, hdgMag, hdgTrue, t, gpsStaleSeconds) ==
  LET posFresh == IF pos # Null /\ Val(pos).timestampMs # Null
                    THEN /\ IsFinite(gpsStaleSeconds)
                         /\ t - Val(Val(pos).timestampMs) <= gpsStaleSeconds.n * 10
                    ELSE FALSE
      cogFromTrue == cogMag = Null /\ cogTrue # Null /\ variation # Null
      cog1 == IF cogFromTrue THEN Some(wrap360(Val(cogTrue) - Val(variation))) ELSE cogMag
      cogSrc1 == IF cogFromTrue THEN Some(PathCogTrue \o " + variation")
                 ELSE IF cogMag # Null THEN Some(PathCogMag) ELSE Null
      cogFromHdg == cog1 = Null /\ hdgMag # Null
      bestCogMagDeg == IF cogFromHdg THEN hdgMag ELSE cog1
      cogSource == IF cogFromHdg THEN Some(PathHdgMag \o " (fallback)") ELSE cogSrc1
      hdgFromTrue == hdgMag = Null /\ hdgTrue # Null /\ variation # Null
      bestHdgMagDeg == IF hdgFromTrue THEN Some(wrap360(Val(hdgTrue) - Val(variation)))
                       ELSE hdgMag
      hdgSource == IF hdgFromTrue THEN Some(PathHdgTrue \o " + variation")
                   ELSE IF hdgMag # Null THEN Some(PathHdgMag) ELSE Null
  IN  [position |-> IF pos # Null THEN Some([lat |-> Val(pos).lat, lon |-> Val(pos).lon])
                    ELSE Null,
       positionFresh |-> posFresh,
       variationDeg |-> variation,
       cogMagDeg |-> bestCogMagDeg,
       cogMagSource |-> cogSource,
       headingMagDeg |-> bestHdgMagDeg,
       headingMagSource |-> hdgSource]
computeStatus(st, t, gpsStaleSeconds) ==
  bestOf(readPosition(st.position), readAngleDeg(st.variation), readAngleDeg(st.cogMag),
         readAngleDeg(st.cogTrue), readAngleDeg(st.hdgMag), readAngleDeg(st.hdgTrue),
         t, gpsStaleSeconds)

\* ------------------------------------------------------------- characters
UpperChars == <<"A", "B", "C", "D", "E", "F", "G", "H", "I", "J", "K", "L", "M",
                "N", "O", "P", "Q", "R", "S", "T", "U", "V", "W", "X", "Y", "Z">>
LowerChars == <<"a", "b", "c", "d", "e", "f", "g", "h", "i", "j", "k", "l", "m",
                "n", "o", "p", "q", "r", "s", "t", "u", "v", "w", "x", "y", "z">>
HexChars == <<"0", "1", "2", "3", "4", "5", "6", "7", "8", "9", "A", "B", "C", "D", "E", "F">>
IsUpper(ch) == \E i \in 1..26 : UpperChars[i] = ch
IsLower(ch) == \E i \in 1..26 : LowerChars[i] = ch

\* charCodeAt, for the characters a sentence can hold
Chars == {UpperChars[i] : i \in 1..26} \cup {LowerChars[i] : i \in 1..26}
           \cup {DigitChars[i] : i \in 1..10}
           \cup {"$", "*", ",", "-", ".", " ", "\r", "\n"}
asciiOf(ch) ==
  IF IsUpper(ch) THEN 64 + (CHOOSE i \in 1..26 : UpperChars[i] = ch)
  ELSE IF IsLower(ch) THEN 96 + (CHOOSE i \in 1..26 : LowerChars[i] = ch)
  ELSE IF IsDigit(ch) THEN 48 + DigitOf(ch)
  ELSE CASE ch = "$" -> 36 [] ch = "*" -> 42 [] ch = "," -> 44 [] ch = "-" -> 45
         [] ch = "." -> 46 [] ch = " " -> 32 [] ch = "\r" -> 13 [] ch = "\n" -> 10
asciiTable == [ch \in Chars |-> asciiOf(ch)]
charCode(ch) == asciiTable[ch]

\* toUpperCase of one character
toUpperCase(ch) ==
  IF IsLower(ch) THEN UpperChars[CHOOSE i \in 1..26 : LowerChars[i] = ch] ELSE ch

RECURSIVE NatToString(_)
NatToString(n) ==
  IF n < 10 THEN <<DigitChars[n + 1]>>
  ELSE NatToString(n \div 10) \o <<DigitChars[(n % 10) + 1]>>

RECURSIVE ToHexUpper(_)
\* n.toString(16).toUpperCase()
ToHexUpper(n) ==
  IF n < 16 THEN <<HexChars[n + 1]>>
  ELSE ToHexUpper(n \div 16) \o <<HexChars[(n % 16) + 1]>>

RECURSIVE padStart(_, _, _)
padStart(s, width, ch) == IF Len(s) >= width THEN s ELSE padStart(<<ch>> \o s, width, ch)

\* x.toFixed(1) and x.toFixed(2) for x >= 0 in hundredths
toFixed1(c) ==
  LET t == RoundDiv(c, 10)
  IN  NatToString(t \div 10) \o <<".">> \o <<DigitChars[(t % 10) + 1]>>
toFixed2(c) ==
  NatToString(c \div 100) \o <<".">>
    \o <<DigitChars[((c \div 10) % 10) + 1], DigitChars[(c % 10) + 1]>>

\* ------------------------------------------------------------ sentences
\* fmtDeg: "083.4"
fmtDeg(deg) == padStart(toFixed1(wrap360(deg)), 5, "0")

\* fmtXteNm: "0.01"
fmtXteNm(nm) == toFixed2(Max(0, Min(999, nm)))

\* the loop of addChecksum: c ^= sentence.charCodeAt(i) for i from `from`.
\* Bit k of the exclusive or of the codes is the parity of the number of
\* characters whose code has bit k set.
XorCodes(sentence, from) ==
  LET codes == [i \in from..Len(sentence) |-> charCode(sentence[i])]
      bit(k) == Cardinality({i \in DOMAIN codes : (codes[i] \div (2 ^ k)) % 2 = 1}) % 2
  IN  bit(0) + 2 * bit(1) + 4 * bit(2) + 8 * bit(3)
        + 16 * bit(4) + 32 * bit(5) + 64 * bit(6) + 128 * bit(7)

\* (variant: the loop starts at the "$")
addChecksumFromDollar(sentence) ==
  CHOOSE r \in {sn \o <<"*">> \o padStart(ToHexUpper(XorCodes(sn, 1)), 2, "0")
                   \o <<"\r", "\n">> : sn \in {sentence}} : TRUE

\* (the singleton set only fixes the value of the argument before the loop)
addChecksum(sentence) ==
  CHOOSE r \in {sn \o <<"*">> \o padStart(ToHexUpper(XorCodes(sn, 2)), 2, "0")
                   \o <<"\r", "\n">> : sn \in {sentence}} : TRUE

Dest == <<"D", "E", "S", "T">>
Orig == <<"O", "R", "I", "G">>
trackName == <<"R", "H", "U", "M", "B">>

\* (variant: a null angle is written as 0)
buildBODZeroForNull(talker, trueDeg, magDeg, dest, orig) ==
  LET tField == IF trueDeg # Null THEN fmtDeg(Val(trueDeg)) ELSE fmtDeg(0)
      mField == IF magDeg # Null THEN fmtDeg(Val(magDeg)) ELSE fmtDeg(0)
      body == talker \o <<"B", "O", "D", ",">> \o tField \o <<",", "T", ",">>
                \o mField \o <<",", "M", ",">> \o dest \o <<",">> \o orig
  IN  addChecksum(<<"$">> \o body)

\* buildBOD({ talker, trueDeg, magDeg, dest, orig })
buildBOD(talker, trueDeg, magDeg, dest, orig) ==
  LET tField == IF trueDeg # Null THEN fmtDeg(Val(trueDeg)) ELSE <<>>
      mField == IF magDeg # Null THEN fmtDeg(Val(magDeg)) ELSE <<>>
      body == talker \o <<"B", "O", "D", ",">> \o tField \o <<",", "T", ",">>
                \o mField \o <<",", "M", ",">> \o dest \o <<",">> \o orig
  IN  addChecksum(<<"$">> \o body)

\* buildAPB({ talker, xteNm, xteSide, htsMagDeg, htsTrueDeg, destId })
buildAPB(talker, xteNm, xteSide, htsMagDeg, htsTrueDeg, destId) ==
  LET xte == fmtXteNm(xteNm)
      side == IF xteSide = "L" THEN "L" ELSE "R"
      htsT == IF htsTrueDeg # Null THEN fmtDeg(Val(htsTrueDeg)) ELSE <<>>
      htsM == IF htsMagDeg # Null THEN fmtDeg(Val(htsMagDeg)) ELSE <<>>
      body == talker \o <<"A", "P", "B", ",", "A", ",", "A", ",">> \o xte
                \o <<",", side, ",", "N", ",", "A", ",", "A", ",">> \o htsT
                \o <<",", "T", ",">> \o htsM \o <<",", "M", ",">> \o destId
                \o <<",", ",", ",">>
  IN  addChecksum(<<"$">> \o body)

RECURSIVE KeepAlnum(_)
\* .toUpperCase().replace(/[^A-Z0-9]/g, '')
KeepAlnum(s) ==
  IF s = <<>> THEN <<>>
  ELSE LET ch == toUpperCase(Head(s))
       IN  (IF IsUpper(ch) \/ IsDigit(ch) THEN <<ch>> ELSE <<>>) \o KeepAlnum(Tail(s))

\* sanitizeTalker(t), t a string or undefined
sanitizeTalker(t) ==
  LET up == KeepAlnum(IF Truthy(t) THEN t.s ELSE <<"I", "I">>)
  IN  IF Len(up) >= 2 THEN SubSeq(up, 1, 2) ELSE <<"I", "I">>

\* ------------------------------------------------------------ track math
\* 1000 * sin of an angle in centidegrees, by Bhaskara's rational
\* approximation 4d(180-d) / (40500 - d(180-d)) on [0,180] (exact at 0, 90
\* and 180 degrees, within 0.2 percent elsewhere); cos(a) = sin(a + 90).
SinMilli(c) ==
  LET a == c % 36000
      h == IF a <= 18000 THEN a ELSE a - 18000
      q == (h * (18000 - h)) \div 1000
      v == (4000 * q) \div (405000 - q)
  IN  IF a <= 18000 THEN v ELSE -v
CosMilli(c) == SinMilli(c + 9000)

\* Metres (times 100) per degree of latitude: 6371000 * pi / 180
MetresPerDegree == 111195

\* Where the sine or cosine of a bearing is zero, Math.sin and Math.cos of
\* degToRad(bearing) return a tiny number instead, except for sin(0) = 0:
\* sin(180) = 1.2e-16, sin(360) = -2.4e-16, cos(90) = 6.1e-17,
\* cos(270) = -1.8e-16.  Their signs:
SinResidual(c) == IF c = 18000 THEN 1 ELSE IF c = 36000 THEN -1 ELSE 0
CosResidual(c) == IF c = 9000 THEN 1 ELSE IF c = 27000 THEN -1 ELSE 0

\* xte_m of computeXteNmAndSide, in millimetres, with the sign of the product
\* of the tiny sine or cosine with the offset, which decides the sign of
\* xte_m where the millimetres are zero
xte_m(start, cur, bearingMagDeg) ==
  LET dN == RoundDiv((cur.lat - start.lat) * MetresPerDegree, 100)
      dE == RoundDiv(RoundDiv((cur.lon - start.lon) * MetresPerDegree, 100)
                       * CosMilli(start.lat), 1000)
  IN  [milli |-> (-SinMilli(bearingMagDeg)) * dE + CosMilli(bearingMagDeg) * dN,
       residual |-> (-SinResidual(bearingMagDeg)) * dE
                      + CosResidual(bearingMagDeg) * dN]

\* (variant: the distance is not clamped to 9.99 nm)
nmAndSideUnclamped(x) ==
  [nm |-> RoundDiv(Abs(x.milli), 18520),
   side |-> IF x.milli > 0 \/ (x.milli = 0 /\ x.residual >= 0) THEN "R" ELSE "L"]

\* nm = Math.min(Math.abs(xte_m) / 1852, 9.99), rounded to hundredths, and
\* side = xte_m >= 0 ? 'R' : 'L'
nmAndSide(x) ==
  [nm |-> Min(RoundDiv(Abs(x.milli), 18520), 999),
   side |-> IF x.milli > 0 \/ (x.milli = 0 /\ x.residual >= 0) THEN "R" ELSE "L"]

\* computeXteNmAndSide(start, cur, bearingMagDeg): nm in hundredths
computeXteNmAndSide(start, cur, bearingMagDeg) ==
  nmAndSide(xte_m(start, cur, bearingMagDeg))

\* ------------------------------------------------------------------ state
VARIABLES
  timer,                \* the handle of the plugin's interval, or null
  enabled,
  mode,                 \* "BOD" (heading hold) or "APB" (track hold)
  targetMagDeg,         \* BOD target
  trackActive,
  trackStart,           \* { lat, lon } or null
  trackBearingMagDeg,
  trackBearingTrueDeg,
  lastSentence,
  lastEmitTs,
  router,               \* the closure of the registered /cmd handler, or null
  liveTimers,           \* the host's live intervals, each with its closure
  pluginStatus,         \* the text last given to app.setPluginStatus
  out,                  \* what the last handler handed to the nmea0183out sink
  lastOp,               \* the last handler that ran
  ops,                  \* handler runs so far
  call                  \* a function of the plugin applied on its own: the
                        \* function, its argument and, once applied, its result

apVars == <<enabled, mode, targetMagDeg, trackActive, trackStart,
            trackBearingMagDeg, trackBearingTrueDeg>>
vars == <<timer, enabled, mode, targetMagDeg, trackActive, trackStart,
          trackBearingMagDeg, trackBearingTrueDeg, lastSentence, lastEmitTs,
          router, liveTimers, pluginStatus, out, lastOp, ops, call>>

\* The autopilot variables as one record, for the handler's steps
AP == [enabled |-> enabled, mode |-> mode, targetMagDeg |-> targetMagDeg,
       trackActive |-> trackActive, trackStart |-> trackStart,
       trackBearingMagDeg |-> trackBearingMagDeg,
       trackBearingTrueDeg |-> trackBearingTrueDeg]

\* ----------------------------------------------------------------- inputs
\* Plugin options given to start: each present or missing
EnabledOptions == {JsUndefined, JsBool(TRUE)}
DefaultModeOptions == {JsUndefined, JsStr(<<"A", "P", "B">>)}
RateOptions == {JsUndefined, JsNum(100)}
TalkerOptions == {JsUndefined, JsStr(<<"i", "-", "i">>)}
StaleOptions == {JsUndefined, JsNum(500)}
\* rateHz, talker and gpsStaleSeconds are all given or all missing
Options == {o \in [enabled : EnabledOptions, defaultMode : DefaultModeOptions,
                   rateHz : RateOptions, talker : TalkerOptions,
                   gpsStaleSeconds : StaleOptions] :
              /\ (o.rateHz = JsUndefined) = (o.talker = JsUndefined)
              /\ (o.rateHz = JsUndefined) = (o.gpsStaleSeconds = JsUndefined)}

\* The commands of the UI, and one the handler does not know
Commands == {"enable", "disable", "mode_bod", "mode_apb", "hold_heading",
             "set_heading", "clear_heading", "hold_rhumb", "stop_track",
             "p1", "m1", "p10", "m10", "refresh"}
NudgeCommands == {"p1", "m1", "p10", "m10"}
\* The v of a set_heading request: 400, 359.96, "400", missing, null, "", "abc"
SetValues == {JsNum(40000), JsNum(35996), JsStr(<<"4", "0", "0">>), JsUndefined, JsNull,
              JsStr(<<>>), JsStr(<<"a", "b", "c">>)}

\* Telemetry: position (0,0) or 0.01 degree east of it, stamped at time 0,
\* or absent; variation 0.09 rad or absent; COG magnetic 85 degrees or
\* absent; heading magnetic 1.57 rad or absent; COG true 90 and heading
\* true 95 degrees.
PositionEntries ==
  {[value |-> PosAbsent, timestamp |-> TsAbsent],
   [value |-> PosObject(JsNum(0), JsNum(0)), timestamp |-> TsIso(0)],
   [value |-> PosObject(JsNum(0), JsNum(1)), timestamp |-> TsIso(0)]}
Stores == [position : PositionEntries,
           variation : {JsUndefined, JsNum(9)},
           cogMag : {JsUndefined, JsNum(8500)},
           cogTrue : {JsNum(9000)},
           hdgMag : {JsUndefined, JsNum(157)},
           hdgTrue : {JsNum(9500)}]
\* What a handler reads: the store and Date.now()
Snapshots == [store : Stores, now : {0, MaxNow}]
FirstSnapshot == CHOOSE snap \in Snapshots : TRUE
\* The callback uses the position and the variation of the status only
TickSnapshots == {snap \in Snapshots : /\ snap.store.cogMag = JsUndefined
                                        /\ snap.store.hdgMag = JsUndefined}

\* The snapshots that differ in what the branch of command c uses of the
\* status: hold_rhumb all of it, hold_heading the heading and the variation,
\* a nudge the variation, the other commands nothing
HeadingSnapshots == {snap \in Snapshots : /\ snap.store.position.value = PosAbsent
                                           /\ snap.store.cogMag = JsUndefined
                                           /\ snap.now = 0}
CommandSnapshots(c) ==
  IF c = "hold_rhumb" THEN Snapshots
  ELSE IF c = "hold_heading" THEN HeadingSnapshots
  ELSE IF c \in NudgeCommands
    THEN {snap \in HeadingSnapshots : snap.store.hdgMag = JsUndefined}
  ELSE {FirstSnapshot}

\* ------------------------------------------------------------------- Init
\* No function is being applied on its own
NoCall == [fn |-> "none", arg |-> Null, res |-> Null]

\* The module-level declarations
InitPlugin ==
  /\ timer = Null
  /\ enabled = FALSE
  /\ mode = "BOD"
  /\ targetMagDeg = Null
  /\ trackActive = FALSE
  /\ trackStart = Null
  /\ trackBearingMagDeg = Null
  /\ trackBearingTrueDeg = Null
  /\ lastSentence = Null
  /\ lastEmitTs = Null
  /\ router = Null
  /\ liveTimers = {}
  /\ pluginStatus = ""
  /\ out = <<>>
  /\ lastOp = "init"
  /\ ops = 0
Init ==
  /\ InitPlugin
  /\ call = NoCall

\* ------------------------------------------------------- the /cmd handler
\* (variant: switching to APB also drops the heading target)
cmdSwitchesClearTarget(ap, c) ==
  LET a1 == IF c = "enable" THEN [ap EXCEPT !.enabled = TRUE] ELSE ap
      a2 == IF c = "disable" THEN [a1 EXCEPT !.enabled = FALSE] ELSE a1
      a3 == IF c = "mode_bod" THEN [a2 EXCEPT !.mode = "BOD"] ELSE a2
  IN  IF c = "mode_apb" THEN [a3 EXCEPT !.mode = "APB", !.targetMagDeg = Null] ELSE a3

\* if (c === 'enable') ... if (c === 'mode_apb') mode = 'APB'
cmdSwitches(ap, c) ==
  LET a1 == IF c = "enable" THEN [ap EXCEPT !.enabled = TRUE] ELSE ap
      a2 == IF c = "disable" THEN [a1 EXCEPT !.enabled = FALSE] ELSE a1
      a3 == IF c = "mode_bod" THEN [a2 EXCEPT !.mode = "BOD"] ELSE a2
  IN  IF c = "mode_apb" THEN [a3 EXCEPT !.mode = "APB"] ELSE a3

\* if (c === 'hold_heading') { if (curHeadingMag != null) ... }
cmdHoldHeading(ap, c, status) ==
  IF c = "hold_heading" /\ status.headingMagDeg # Null
    THEN [ap EXCEPT !.targetMagDeg = status.headingMagDeg, !.mode = "BOD",
                    !.trackActive = FALSE]
    ELSE ap

\* (variant: set_heading leaves the track active)
cmdSetHeadingKeepsTrack(ap, c, v) ==
  LET n == ToNumber(v)
  IN  IF c = "set_heading" /\ IsFinite(n)
        THEN [ap EXCEPT !.targetMagDeg = Some(wrap360(n.n)), !.mode = "BOD"]
        ELSE ap

\* if (c === 'set_heading') { const n = Number(v); if (Number.isFinite(n)) ... }
cmdSetHeading(ap, c, v) ==
  LET n == ToNumber(v)
  IN  IF c = "set_heading" /\ IsFinite(n)
        THEN [ap EXCEPT !.targetMagDeg = Some(wrap360(n.n)), !.mode = "BOD",
                        !.trackActive = FALSE]
        ELSE ap

\* if (c === 'clear_heading') targetMagDeg = null
cmdClearHeading(ap, c) ==
  IF c = "clear_heading" THEN [ap EXCEPT !.targetMagDeg = Null] ELSE ap

\* (variant: the position need not be fresh)
cmdHoldRhumbStalePosition(ap, c, status) ==
  LET curPos == status.position
      bearingMag == IF status.cogMagDeg # Null THEN status.cogMagDeg
                    ELSE status.headingMagDeg
      bMag == wrap360(Val(bearingMag))
  IN  IF c = "hold_rhumb" /\ curPos # Null /\ bearingMag # Null
        THEN [ap EXCEPT
                !.trackStart = Some([lat |-> Val(curPos).lat, lon |-> Val(curPos).lon]),
                !.trackBearingMagDeg = Some(bMag),
                !.trackBearingTrueDeg =
                   IF status.variationDeg # Null
                     THEN Some(wrap360(bMag + Val(status.variationDeg))) ELSE Null,
                !.trackActive = TRUE,
                !.mode = "APB",
                !.targetMagDeg = Null]
        ELSE ap

\* (variant: the heading target survives the start of a track)
cmdHoldRhumbKeepsTarget(ap, c, status) ==
  LET curPos == status.position
      bearingMag == IF status.cogMagDeg # Null THEN status.cogMagDeg
                    ELSE status.headingMagDeg
      bMag == wrap360(Val(bearingMag))
  IN  IF c = "hold_rhumb" /\ curPos # Null /\ status.positionFresh /\ bearingMag # Null
        THEN [ap EXCEPT
                !.trackStart = Some([lat |-> Val(curPos).lat, lon |-> Val(curPos).lon]),
                !.trackBearingMagDeg = Some(bMag),
                !.trackBearingTrueDeg =
                   IF status.variationDeg # Null
                     THEN Some(wrap360(bMag + Val(status.variationDeg))) ELSE Null,
                !.trackActive = TRUE,
                !.mode = "APB"]
        ELSE ap

\* (variant: the heading is preferred to the COG)
cmdHoldRhumbPrefersHeading(ap, c, status) ==
  LET curPos == status.position
      bearingMag == IF status.headingMagDeg # Null THEN status.headingMagDeg
                    ELSE status.cogMagDeg
      bMag == wrap360(Val(bearingMag))
  IN  IF c = "hold_rhumb" /\ curPos # Null /\ status.positionFresh /\ bearingMag # Null
        THEN [ap EXCEPT
                !.trackStart = Some([lat |-> Val(curPos).lat, lon |-> Val(curPos).lon]),
                !.trackBearingMagDeg = Some(bMag),
                !.trackBearingTrueDeg =
                   IF status.variationDeg # Null
                     THEN Some(wrap360(bMag + Val(status.variationDeg))) ELSE Null,
                !.trackActive = TRUE,
                !.mode = "APB",
                !.targetMagDeg = Null]
        ELSE ap

\* (variant: the start position is not captured)
cmdHoldRhumbWithoutStart(ap, c, status) ==
  LET curPos == status.position
      bearingMag == IF status.cogMagDeg # Null THEN status.cogMagDeg
                    ELSE status.headingMagDeg
      bMag == wrap360(Val(bearingMag))
  IN  IF c = "hold_rhumb" /\ curPos # Null /\ status.positionFresh /\ bearingMag # Null
        THEN [ap EXCEPT
                !.trackBearingMagDeg = Some(bMag),
                !.trackBearingTrueDeg =
                   IF status.variationDeg # Null
                     THEN Some(wrap360(bMag + Val(status.variationDeg))) ELSE Null,
                !.trackActive = TRUE,
                !.mode = "APB",
                !.targetMagDeg = Null]
        ELSE ap

\* if (c === 'hold_rhumb') { if (curPos && status.best.positionFresh) ... }
cmdHoldRhumb(ap, c, status) ==
  LET curPos == status.position
      bearingMag == IF status.cogMagDeg # Null THEN status.cogMagDeg
                    ELSE status.headingMagDeg
      bMag == wrap360(Val(bearingMag))
  IN  IF c = "hold_rhumb" /\ curPos # Null /\ status.positionFresh /\ bearingMag # Null
        THEN [ap EXCEPT
                !.trackStart = Some([lat |-> Val(curPos).lat, lon |-> Val(curPos).lon]),
                !.trackBearingMagDeg = Some(bMag),
                !.trackBearingTrueDeg =
                   IF status.variationDeg # Null
                     THEN Some(wrap360(bMag + Val(status.variationDeg))) ELSE Null,
                !.trackActive = TRUE,
                !.mode = "APB",
                !.targetMagDeg = Null]
        ELSE ap

\* (variant: the track stays active)
cmdStopTrackKeepsActive(ap, c) ==
  IF c = "stop_track"
    THEN [ap EXCEPT !.trackStart = Null, !.trackBearingMagDeg = Null,
                    !.trackBearingTrueDeg = Null]
    ELSE ap

\* if (c === 'stop_track') ...
cmdStopTrack(ap, c) ==
  IF c = "stop_track"
    THEN [ap EXCEPT !.trackActive = FALSE, !.trackStart = Null,
                    !.trackBearingMagDeg = Null, !.trackBearingTrueDeg = Null]
    ELSE ap

\* const delta = c === 'p1' ? 1 : ...
nudgeDelta(c) ==
  IF c = "p1" THEN 100 ELSE IF c = "m1" THEN -100
  ELSE IF c = "p10" THEN 1000 ELSE IF c = "m10" THEN -1000 ELSE 0

\* (variant: the true bearing is not recomputed)
cmdNudgeKeepsTrue(ap, c, status) ==
  LET delta == nudgeDelta(c)
      a1 == IF delta # 0 /\ ap.mode = "BOD" /\ ap.targetMagDeg # Null
              THEN [ap EXCEPT !.targetMagDeg = Some(wrap360(Val(ap.targetMagDeg) + delta))]
              ELSE ap
      bMag == wrap360(Val(a1.trackBearingMagDeg) + delta)
  IN  IF delta # 0 /\ a1.mode = "APB" /\ a1.trackActive /\ a1.trackBearingMagDeg # Null
        THEN [a1 EXCEPT !.trackBearingMagDeg = Some(bMag)]
        ELSE a1

\* if (delta !== 0) { ... }
cmdNudge(ap, c, status) ==
  LET delta == nudgeDelta(c)
      a1 == IF delta # 0 /\ ap.mode = "BOD" /\ ap.targetMagDeg # Null
              THEN [ap EXCEPT !.targetMagDeg = Some(wrap360(Val(ap.targetMagDeg) + delta))]
              ELSE ap
      bMag == wrap360(Val(a1.trackBearingMagDeg) + delta)
  IN  IF delta # 0 /\ a1.mode = "APB" /\ a1.trackActive /\ a1.trackBearingMagDeg # Null
        THEN [a1 EXCEPT
                !.trackBearingMagDeg = Some(bMag),
                !.trackBearingTrueDeg =
                   IF status.variationDeg # Null
                     THEN Some(wrap360(bMag + Val(status.variationDeg))) ELSE Null]
        ELSE a1

\* router.post('/cmd'): the autopilot state after the request { c, v }
cmdApply(ap, c, v, status) ==
  LET a1 == cmdSwitches(ap, c)
      a2 == cmdHoldHeading(a1, c, status)
      a3 == cmdSetHeading(a2, c, v)
      a4 == cmdClearHeading(a3, c)
      a5 == cmdHoldRhumb(a4, c, status)
      a6 == cmdStopTrack(a5, c)
  IN  cmdNudge(a6, c, status)
cmdResult(ap, c, v, snap, gpsStaleSeconds) ==
  cmdApply(ap, c, v, computeStatus(snap.store, snap.now, gpsStaleSeconds))

Cmd(c, v, snap) ==
  /\ router # Null
  /\ ops < MaxOps
  /\ \E a \in {cmdResult(AP, c, v, snap, Val(router).gpsStaleSeconds)} :
         /\ enabled' = a.enabled
         /\ mode' = a.mode
         /\ targetMagDeg' = a.targetMagDeg
         /\ trackActive' = a.trackActive
         /\ trackStart' = a.trackStart
         /\ trackBearingMagDeg' = a.trackBearingMagDeg
         /\ trackBearingTrueDeg' = a.trackBearingTrueDeg
  /\ ops' = ops + 1
  /\ out' = <<>>
  /\ lastOp' = c
  /\ UNCHANGED <<timer, lastSentence, lastEmitTs, router, liveTimers, pluginStatus,
                 call>>

\* -------------------------------------------------------------- lifecycle
\* (variant: the interval is not cleared)
stopTimerLeaks(tm, live) == live

\* stopTimer(): if (timer) clearInterval(timer); timer = null.  The live
\* intervals that remain.
stopTimer(tm, live) ==
  IF tm # Null THEN {t \in live : t.id # Val(tm)} ELSE live

\* Math.max(100, Math.round(1000 / rateHz)), rateHz a JavaScript number
periodMs(rateHz) ==
  IF rateHz.k = "nan" THEN NaN
  ELSE IF rateHz.k = "inf" THEN Fin(10000)
  ELSE IF rateHz.n = 0 THEN Infinity   \* 1000 / 0, for the text "0" (0 || 1 is 1)
  ELSE IF rateHz.n > 0 THEN Fin(Max(10000, 100 * RoundDiv(100000, rateHz.n)))
  ELSE Fin(Max(10000, 100 * RoundDiv(-100000, -rateHz.n)))

\* The period start() hands to setInterval for the option rateHz:
\* rateHz = Number(options.rateHz || 1), then periodMs
startPeriod(option) == periodMs(ToNumber(OrElse(option, JsNum(100))))

\* setInterval: the host hands out the smallest handle not in use
FreeIds(live) == {i \in 1..MaxTimers : \A t \in live : t.id # i}
NewId(live) == CHOOSE i \in FreeIds(live) : \A j \in FreeIds(live) : i <= j

\* plugin.start(options)
Start(o) ==
  LET talker == sanitizeTalker(OrElse(o.talker, JsStr(<<"I", "I">>)))
      gpsStaleSeconds == ToNumber(OrElse(o.gpsStaleSeconds, JsNum(500)))
      live == stopTimer(timer, liveTimers)
  IN  /\ ops < MaxOps
      /\ FreeIds(live) # {}
      /\ enabled' = Truthy(o.enabled)
      /\ mode' = IF o.defaultMode = JsStr(<<"A", "P", "B">>) THEN "APB" ELSE "BOD"
      /\ router' = Some([gpsStaleSeconds |-> gpsStaleSeconds])
      /\ timer' = Some(NewId(live))
      /\ liveTimers' = live \cup {[id |-> NewId(live), talker |-> talker,
                                   gpsStaleSeconds |-> gpsStaleSeconds,
                                   periodMs |-> startPeriod(o.rateHz)]}
      /\ pluginStatus' = "Running. UI: /plugins/hts"
      /\ out' = <<>>
      /\ lastOp' = "start"
      /\ UNCHANGED <<targetMagDeg, trackActive, trackStart, trackBearingMagDeg,
                     trackBearingTrueDeg, lastSentence, lastEmitTs, call>>
      /\ ops' = ops + 1

\* plugin.stop()
Stop ==
  /\ ops < MaxOps
  /\ ops' = ops + 1
  /\ liveTimers' = stopTimer(timer, liveTimers)
  /\ timer' = Null
  /\ pluginStatus' = "Stopped"
  /\ out' = <<>>
  /\ lastOp' = "stop"
  /\ UNCHANGED <<enabled, mode, targetMagDeg, trackActive, trackStart,
                 trackBearingMagDeg, trackBearingTrueDeg, lastSentence,
                 lastEmitTs, router, call>>

\* ------------------------------------------------------------ output loop
\* (variant: no check of the target; null counts as 0 in the sum)
bodSentencesWithoutTarget(ap, status, talker) ==
  LET variationDeg == status.variationDeg
      target == IF ap.targetMagDeg = Null THEN 0 ELSE Val(ap.targetMagDeg)
      trueDeg == IF variationDeg # Null
                   THEN Some(wrap360(target + Val(variationDeg))) ELSE Null
  IN  <<buildBOD(talker, trueDeg, ap.targetMagDeg, Dest, Orig)>>

\* The BOD branch of the interval callback: the sentences it hands to emit
bodSentences(ap, status, talker) ==
  IF ap.targetMagDeg = Null THEN <<>>
  ELSE LET variationDeg == status.variationDeg
           trueDeg == IF variationDeg # Null
                        THEN Some(wrap360(Val(ap.targetMagDeg) + Val(variationDeg)))
                        ELSE Null
       IN  <<buildBOD(talker, trueDeg, ap.targetMagDeg, Dest, Orig)>>

\* (variant: the true bearing stored with the track is sent)
apbSentencesStoredTrue(ap, status, talker) ==
  IF ~ap.trackActive \/ ap.trackStart = Null \/ ap.trackBearingMagDeg = Null THEN <<>>
  ELSE IF ~status.positionFresh \/ status.position = Null THEN <<>>
  ELSE LET cur == Val(status.position)
           xte == computeXteNmAndSide(Val(ap.trackStart), cur,
                                      Val(ap.trackBearingMagDeg))
       IN  <<buildAPB(talker, xte.nm, xte.side, ap.trackBearingMagDeg,
                      ap.trackBearingTrueDeg, trackName)>>

\* (variant: the position need not be fresh)
apbSentencesStalePosition(ap, status, talker) ==
  IF ~ap.trackActive \/ ap.trackStart = Null \/ ap.trackBearingMagDeg = Null THEN <<>>
  ELSE IF status.position = Null THEN <<>>
  ELSE LET cur == Val(status.position)
           xte == computeXteNmAndSide(Val(ap.trackStart), cur,
                                      Val(ap.trackBearingMagDeg))
           htsMag == ap.trackBearingMagDeg
           htsTrue == IF status.variationDeg # Null
                        THEN Some(wrap360(Val(ap.trackBearingMagDeg)
                                            + Val(status.variationDeg)))
                        ELSE Null
       IN  <<buildAPB(talker, xte.nm, xte.side, htsMag, htsTrue, trackName)>>

\* The APB branch of the interval callback
apbSentences(ap, status, talker) ==
  IF ~ap.trackActive \/ ap.trackStart = Null \/ ap.trackBearingMagDeg = Null THEN <<>>
  ELSE IF ~status.positionFresh \/ status.position = Null THEN <<>>
  ELSE LET cur == Val(status.position)
           xte == computeXteNmAndSide(Val(ap.trackStart), cur,
                                      Val(ap.trackBearingMagDeg))
           htsMag == ap.trackBearingMagDeg
           htsTrue == IF status.variationDeg # Null
                        THEN Some(wrap360(Val(ap.trackBearingMagDeg)
                                            + Val(status.variationDeg)))
                        ELSE Null
       IN  <<buildAPB(talker, xte.nm, xte.side, htsMag, htsTrue, trackName)>>

\* (variant: enabled is not consulted)
tickSentencesIgnoringEnabled(ap, status, talker) ==
  IF ap.mode = "BOD" THEN bodSentences(ap, status, talker)
  ELSE IF ap.mode = "APB" THEN apbSentences(ap, status, talker)
  ELSE <<>>

\* The interval callback: the sentences it hands to emit (none or one)
tickSentences(ap, status, talker) ==
  IF ~ap.enabled THEN <<>>
  ELSE IF ap.mode = "BOD" THEN bodSentences(ap, status, talker)
  ELSE IF ap.mode = "APB" THEN apbSentences(ap, status, talker)
  ELSE <<>>

RECURSIVE text(_)
\* The characters as one string
text(chars) == IF chars = <<>> THEN "" ELSE Head(chars) \o text(Tail(chars))

\* emit(sentence): lastSentence, lastEmitTs, and the hand-off to the sink
emitLast(sentences, last) ==
  IF sentences = <<>> THEN last ELSE Some(text(Trim(sentences[Len(sentences)])))
emitTs(sentences, lastTs, t) ==
  IF sentences = <<>> THEN lastTs ELSE Some(t)

\* One firing of the live interval t
Tick(t, snap) ==
  \E sentences \in {tickSentences(AP, computeStatus(snap.store, snap.now, t.gpsStaleSeconds),
                                  t.talker)} :
      /\ ops < MaxOps
      /\ ops' = ops + 1
      /\ lastSentence' = emitLast(sentences, lastSentence)
      /\ lastEmitTs' = emitTs(sentences, lastEmitTs, snap.now)
      /\ out' = sentences
      /\ lastOp' = "tick"
      /\ UNCHANGED <<timer, enabled, mode, targetMagDeg, trackActive, trackStart,
                     trackBearingMagDeg, trackBearingTrueDeg, router, liveTimers,
                     pluginStatus, call>>

Next ==
  \/ \E o \in Options : Start(o)
  \/ Stop
  \/ \E c \in Commands :
       \E v \in (IF c = "set_heading" THEN SetValues ELSE {JsUndefined}),
          snap \in CommandSnapshots(c) :
         Cmd(c, v, snap)
  \/ \E t \in liveTimers, snap \in TickSnapshots : Tick(t, snap)

Spec == Init /\ [][Next]_vars

\* ------------------------------------------------- the functions on their own
\* The plugin's variables, which an application of a function on its own
\* leaves alone
pluginVars == <<timer, enabled, mode, targetMagDeg, trackActive, trackStart,
                trackBearingMagDeg, trackBearingTrueDeg, lastSentence, lastEmitTs,
                router, liveTimers, pluginStatus, out, lastOp, ops>>
Pending(fn, arg) == [fn |-> fn, arg |-> Some(arg), res |-> Null]
Applied(fn, res) ==
  /\ call.fn = fn
  /\ call.res = Null
  /\ call' = [call EXCEPT !.res = Some(res)]
  /\ UNCHANGED pluginVars

\* Angles from -MaxAngle to MaxAngle hundredths of a degree
AngleInputs == (-MaxAngle) .. MaxAngle
ApplyWrap360 == Applied("wrap360", wrap360(Val(call.arg)))

\* What computeStatus can find in the store.  Position: absent; a value that
\* is no object; an object with numeric coordinates, stamped at time 0 or at
\* MaxNow, or with no timestamp, or with one that is no date; an object whose
\* latitude is missing, null or text.  Angles: absent, null, text, radians or
\* degrees (a variation of 365 degrees reads as 5.0).  The clock: 0, the staleness limit of 5 s, 1 ms more, MaxNow.
\* gpsStaleSeconds: 5, or NaN (an option that is no number).
FusePositions ==
  {[value |-> PosAbsent, timestamp |-> TsAbsent],
   [value |-> PosScalar, timestamp |-> TsIso(0)],
   [value |-> PosObject(JsNum(0), JsNum(1)), timestamp |-> TsIso(0)],
   [value |-> PosObject(JsNum(0), JsNum(1)), timestamp |-> TsIso(MaxNow)],
   [value |-> PosObject(JsNum(0), JsNum(1)), timestamp |-> TsAbsent],
   [value |-> PosObject(JsNum(0), JsNum(1)), timestamp |-> TsText],
   [value |-> PosObject(JsUndefined, JsNum(1)), timestamp |-> TsIso(0)],
   [value |-> PosObject(JsNull, JsNull), timestamp |-> TsIso(0)],
   [value |-> PosObject(JsStr(<<"a", "b", "c">>), JsNum(1)), timestamp |-> TsIso(0)]}
FuseStores == [position : FusePositions,
               variation : {JsUndefined, JsNull, JsNum(9), JsNum(36500),
                            JsStr(<<"a", "b", "c">>)},
               cogMag : {JsUndefined, JsNum(8500), JsNum(35996)},
               cogTrue : {JsUndefined, JsNum(9000)},
               hdgMag : {JsUndefined, JsNum(157)},
               hdgTrue : {JsUndefined, JsNum(9500)}]
FuseInputs == [store : FuseStores, now : {0, 5000, 5001, MaxNow},
               gpsStaleSeconds : {Fin(500), NaN}]
ApplyComputeStatus ==
  Applied("computeStatus",
          computeStatus(Val(call.arg).store, Val(call.arg).now,
                        Val(call.arg).gpsStaleSeconds))

\* The rateHz option of start(): missing, null, "", "0", "abc", " 2 ", and
\* every number of hundredths of a hertz from -MaxRate to MaxRate
MaxRate == 2000
RateInputs ==
  {JsUndefined, JsNull, JsStr(<<>>), JsStr(<<"0">>), JsStr(<<"a", "b", "c">>),
   JsStr(<<" ", "2", " ">>)}
    \cup {JsNum(n) : n \in (-MaxRate) .. MaxRate}
ApplyStartPeriod == Applied("startPeriod", startPeriod(Val(call.arg)))

\* Tracks for computeXteNmAndSide: a start on the equator or at 45 N, the
\* current position up to MaxOffset hundredths of a degree north, south, east
\* and west of it, or 0.16, 0.17 (9.6 and 10.2 nm of latitude) or 1 degree
\* (60 nm) away, and a bearing that is cardinal, 360.0 or 045.0
MaxOffset == 2
XteOffsets == ((-MaxOffset) .. MaxOffset) \cup {-100, -17, -16, 16, 17, 100}
XteStarts == {[lat |-> 0, lon |-> 0], [lat |-> 4500, lon |-> 100]}
XteBearings == {0, 4500, 9000, 18000, 27000, 36000}
XteInputs ==
  {[start |-> st, cur |-> [lat |-> st.lat + dLat, lon |-> st.lon + dLon],
    bearingMagDeg |-> b] :
     st \in XteStarts, dLat \in XteOffsets, dLon \in XteOffsets,
     b \in XteBearings}
ApplyXte ==
  Applied("computeXteNmAndSide",
          computeXteNmAndSide(Val(call.arg).start, Val(call.arg).cur,
                              Val(call.arg).bearingMagDeg))

\* Arguments of the sentence builders: a talker, angles that are null, 0,
\* 8.3, 359.96 or -1.0 degrees, the names the tick passes or none, a distance
\* of 0, 0.01, 0.60, 9.99 or 50 nm and a side
SentenceTalkers == {<<"I", "I">>, <<"G", "P">>}
SentenceAngles == {Null, Some(0), Some(830), Some(35996), Some(-100)}
BODInputs == [talker : SentenceTalkers, trueDeg : SentenceAngles,
              magDeg : SentenceAngles, dest : {Dest, <<>>}, orig : {Orig, <<>>}]
APBInputs == [talker : SentenceTalkers, xteNm : {0, 1, 60, 999, 5000},
              xteSide : {"L", "R"}, htsMagDeg : SentenceAngles,
              htsTrueDeg : SentenceAngles, destId : {trackName, <<>>}]
ApplyBuildBOD ==
  Applied("buildBOD",
          buildBOD(Val(call.arg).talker, Val(call.arg).trueDeg, Val(call.arg).magDeg,
                   Val(call.arg).dest, Val(call.arg).orig))
ApplyBuildAPB ==
  Applied("buildAPB",
          buildAPB(Val(call.arg).talker, Val(call.arg).xteNm, Val(call.arg).xteSide,
                   Val(call.arg).htsMagDeg, Val(call.arg).htsTrueDeg,
                   Val(call.arg).destId))

InitFn ==
  /\ InitPlugin
  /\ \/ \E a \in AngleInputs : call = Pending("wrap360", a)
     \/ \E i \in FuseInputs : call = Pending("computeStatus", i)
     \/ \E r \in RateInputs : call = Pending("startPeriod", r)
     \/ \E x \in XteInputs : call = Pending("computeXteNmAndSide", x)
     \/ \E b \in BODInputs : call = Pending("buildBOD", b)
     \/ \E a \in APBInputs : call = Pending("buildAPB", a)
NextFn ==
  \/ ApplyWrap360
  \/ ApplyComputeStatus
  \/ ApplyStartPeriod
  \/ ApplyXte
  \/ ApplyBuildBOD
  \/ ApplyBuildAPB
FnSpec == InitFn /\ [][NextFn]_vars

\* ====================================================================
\* Properties
\* ====================================================================
Running == "Running. UI: /plugins/hts"
\* The step is a run of the handler op
HandlerRan(op) == lastOp' = op /\ ops' = ops + 1
\* The statuses the /cmd handler can compute for command c, one for each
\* snapshot it may read, for each staleness limit start can install
StaleValues == {ToNumber(OrElse(o, JsNum(500))) : o \in StaleOptions}
StatusSets ==
  [g \in StaleValues |->
     [c \in Commands |->
        {computeStatus(snap.store, snap.now, g) : snap \in CommandSnapshots(c)}]]
cmdStatuses(c) == StatusSets[Val(router).gpsStaleSeconds][c]
\* The autopilot state the /cmd handler leaves for the request { c, v },
\* given the status it computed
CmdAfter(c, v, status) == cmdApply(AP, c, v, status)

\* The k-th comma-separated field of a sentence
Commas(sn) == {i \in 1..Len(sn) : sn[i] = ","}
NthComma(sn, k) == CHOOSE i \in Commas(sn) : Cardinality({j \in Commas(sn) : j < i}) = k - 1
Field(sn, k) ==
  LET from == IF k = 1 THEN 1 ELSE NthComma(sn, k - 1) + 1
      to == IF k > Cardinality(Commas(sn)) THEN Len(sn) ELSE NthComma(sn, k) - 1
  IN  SubSeq(sn, from, to)
IsBOD(sn) == SubSeq(sn, 4, 6) = <<"B", "O", "D">>
IsAPB(sn) == SubSeq(sn, 4, 6) = <<"A", "P", "B">>

\* A request value that is a number: a number, or text that spells one
IsNumeric(v) ==
  \/ v.t = "number"
  \/ /\ v.t = "string"
     /\ Trim(v.s) # <<>>
     /\ \A i \in 1..Len(Trim(v.s)) : IsDigit(Trim(v.s)[i])

\* C1 (as stated): the track is active exactly when its start position and
\* its magnetic bearing are both set.
C1_ActiveIffFieldsSet ==
  trackActive <=> (trackStart # Null /\ trackBearingMagDeg # Null)

\* C1 (amended): an active track has its start position and its magnetic
\* bearing set, and the start position is set exactly when the bearing is;
\* a track deactivated by holdHeading or setHeading keeps both.
C1_ActiveImpliesFieldsSet ==
  /\ trackActive => (trackStart # Null /\ trackBearingMagDeg # Null)
  /\ (trackStart # Null) <=> (trackBearingMagDeg # Null)
C1_Witness ==
  lastOp = "hold_heading" /\ ~trackActive /\ trackStart # Null /\ trackBearingMagDeg # Null

\* C2: a tick that finds enabled false hands nothing to the sink and leaves
\* lastSentence and lastEmitTs as they were, whatever the mode, the target,
\* the track and the telemetry.
C2_DisabledTickIsSilent ==
  [][(HandlerRan("tick") /\ ~enabled)
       => (out' = <<>> /\ UNCHANGED <<lastSentence, lastEmitTs>>)]_vars
C2_Witness ==
  lastOp = "tick" /\ ~enabled /\ mode = "BOD" /\ targetMagDeg # Null /\ out = <<>>

\* C3: a tick in heading hold with no target emits nothing; every BOD handed
\* to the sink carries the current target in its magnetic field; the target
\* comes into being only by holdHeading or setHeading, changes only by those
\* or a nudge, and ceases only by clearHeading or holdRhumb.
C3_NoTargetNoBOD ==
  [][/\ (HandlerRan("tick") /\ mode = "BOD" /\ targetMagDeg = Null)
          => (out' = <<>> /\ UNCHANGED <<lastSentence, lastEmitTs>>)
     /\ \A i \in 1..Len(out') :
          IsBOD(out'[i]) => /\ targetMagDeg' # Null
                            /\ Field(out'[i], 4) = fmtDeg(Val(targetMagDeg'))
     /\ (targetMagDeg = Null /\ targetMagDeg' # Null)
          => lastOp' \in {"hold_heading", "set_heading"}
     /\ (targetMagDeg # Null /\ targetMagDeg' # Null /\ targetMagDeg' # targetMagDeg)
          => lastOp' \in {"hold_heading", "set_heading"} \cup NudgeCommands
     /\ (targetMagDeg # Null /\ targetMagDeg' = Null)
          => lastOp' \in {"clear_heading", "hold_rhumb"}
     /\ HandlerRan("clear_heading") => targetMagDeg' = Null]_vars
C3_Witness ==
  lastOp = "tick" /\ enabled /\ mode = "BOD" /\ targetMagDeg = Null /\ out = <<>>

\* C4: a tick in track hold emits nothing when the track is not active, and
\* nothing when the position it reads is absent or not fresh; an APB is
\* handed to the sink only by a tick, with the track active and the position
\* read by that tick fresh.
C4_StaleOrInactiveNoAPB ==
  [][/\ (HandlerRan("tick") /\ mode = "APB" /\ ~trackActive)
          => (out' = <<>> /\ UNCHANGED <<lastSentence, lastEmitTs>>)
     /\ (HandlerRan("tick") /\ mode = "APB" /\ out' # <<>>)
          => \A t \in liveTimers, snap \in TickSnapshots :
               Tick(t, snap) =>
                 LET status == computeStatus(snap.store, snap.now, t.gpsStaleSeconds)
                 IN  status.position # Null /\ status.positionFresh
     /\ \A i \in 1..Len(out') :
          IsAPB(out'[i]) => (lastOp' = "tick" /\ mode' = "APB" /\ trackActive')]_vars
C4_Witness ==
  lastOp = "tick" /\ enabled /\ mode = "APB" /\ trackActive /\ out = <<>>

\* C5: a command whose precondition fails leaves the autopilot state as it
\* was: holdHeading with the magnetic heading unknown; holdRhumb with the
\* position absent or not fresh, or with neither COG nor heading known; a
\* nudge with no target for the active mode.  Stated of the handler's result
\* in every reachable state, for every telemetry snapshot it may read.
C5_FailedPreconditionNoChange ==
  router # Null =>
    \A c \in {"hold_heading", "hold_rhumb"} \cup NudgeCommands :
      \A status \in cmdStatuses(c) :
        ( \/ c = "hold_heading" /\ status.headingMagDeg = Null
          \/ /\ c = "hold_rhumb"
             /\ \/ status.position = Null
                \/ ~status.positionFresh
                \/ (status.cogMagDeg = Null /\ status.headingMagDeg = Null)
          \/ /\ c \in NudgeCommands
             /\ \/ mode = "BOD" /\ targetMagDeg = Null
                \/ mode = "APB" /\ (~trackActive \/ trackBearingMagDeg = Null) )
          => CmdAfter(c, JsUndefined, status) = AP
C5_Witness ==
  lastOp = "hold_rhumb" /\ ~trackActive /\ trackStart = Null /\ mode = "BOD"

\* C6: setHeading(v) with v a number sets the target to wrap360(v), the mode
\* to heading hold and deactivates the track; with v not a number (missing,
\* null, empty or non-numeric text) it changes nothing.
C6_SetHeadingOnlyNumbers ==
  [][\A v \in SetValues :
       (HandlerRan("set_heading") /\ Cmd("set_heading", v, FirstSnapshot))
         => IF IsNumeric(v)
              THEN /\ targetMagDeg' = Some(wrap360(ToNumber(v).n))
                   /\ mode' = "BOD"
                   /\ ~trackActive'
              ELSE UNCHANGED apVars]_vars

\* C7: right after a holdRhumb whose precondition holds the target is null,
\* the track is active and the mode is track hold; right after a holdHeading
\* or setHeading that succeeds the track is not active and the mode is
\* heading hold.  Stated of the handler's result in every reachable state.
C7_ModeExclusiveAfterHold ==
  router # Null =>
    /\ \A status \in cmdStatuses("hold_rhumb") :
         ( /\ status.position # Null
           /\ status.positionFresh
           /\ (status.cogMagDeg # Null \/ status.headingMagDeg # Null) )
           => \A a \in {CmdAfter("hold_rhumb", JsUndefined, status)} :
                a.targetMagDeg = Null /\ a.trackActive /\ a.mode = "APB"
    /\ \A status \in cmdStatuses("hold_heading") :
         status.headingMagDeg # Null
           => \A a \in {CmdAfter("hold_heading", JsUndefined, status)} :
                a.targetMagDeg # Null /\ ~a.trackActive /\ a.mode = "BOD"
    /\ \A v \in SetValues :
         IsFinite(ToNumber(v))
           => \A status \in cmdStatuses("set_heading") :
              \A a \in {CmdAfter("set_heading", v, status)} :
                a.targetMagDeg # Null /\ ~a.trackActive /\ a.mode = "BOD"
C7_Witness ==
  lastOp = "hold_rhumb" /\ trackActive /\ mode = "APB" /\ targetMagDeg = Null

\* C8: a start that follows a stop finds no heading target and no active
\* track, whatever commands came before the stop.
C8_NothingSurvivesRestart ==
  [][(HandlerRan("start") /\ pluginStatus = "Stopped")
       => (targetMagDeg' = Null /\ ~trackActive')]_vars

\* C9: exactly one interval is live after a start and none after a stop (or
\* before the first start), the plugin's handle is that interval, and while
\* the plugin is not running no tick runs and nothing reaches the sink.
C9_OneTimerWhileRunning ==
  [][/\ Cardinality(liveTimers') = (IF pluginStatus' = Running THEN 1 ELSE 0)
     /\ pluginStatus' = Running
          => (timer' # Null /\ \A t \in liveTimers' : t.id = Val(timer'))
     /\ pluginStatus' # Running => timer' = Null
     /\ (pluginStatus # Running /\ ops' = ops + 1)
          => (lastOp' # "tick" /\ out' = <<>>)]_vars
C9_Witness ==
  pluginStatus = "Stopped" /\ router # Null /\ liveTimers = {} /\ lastOp = "stop"

\* C10: setMode changes the mode and nothing else of the autopilot state;
\* enable and disable change enabled and nothing else.
C10_SwitchesChangeOneField ==
  [][/\ HandlerRan("mode_bod") => mode' = "BOD"
     /\ HandlerRan("mode_apb") => mode' = "APB"
     /\ (HandlerRan("mode_bod") \/ HandlerRan("mode_apb"))
          => UNCHANGED <<enabled, targetMagDeg, trackActive, trackStart,
                         trackBearingMagDeg, trackBearingTrueDeg>>
     /\ HandlerRan("enable") => enabled'
     /\ HandlerRan("disable") => ~enabled'
     /\ (HandlerRan("enable") \/ HandlerRan("disable"))
          => UNCHANGED <<mode, targetMagDeg, trackActive, trackStart,
                         trackBearingMagDeg, trackBearingTrueDeg>>]_vars
C10_Witness ==
  lastOp = "mode_apb" /\ mode = "APB" /\ targetMagDeg # Null /\ ~trackActive

\* C11: a holdRhumb issued with a fresh position and a known bearing sets the
\* track start to the current position, the magnetic bearing to wrap360(b),
\* b the COG if known and the heading otherwise, the true bearing to
\* wrap360(b + variation) if the variation is known and to null otherwise,
\* activates the track, sets the mode to track hold and clears the target.
C11_HoldRhumbCapturesTrack ==
  router # Null =>
    \A status \in cmdStatuses("hold_rhumb") :
      ( /\ status.position # Null
        /\ status.positionFresh
        /\ (status.cogMagDeg # Null \/ status.headingMagDeg # Null) )
        => \A a \in {CmdAfter("hold_rhumb", JsUndefined, status)},
              b \in {IF status.cogMagDeg # Null THEN Val(status.cogMagDeg)
                     ELSE Val(status.headingMagDeg)} :
             /\ a.trackStart = status.position
             /\ a.trackBearingMagDeg = Some(wrap360(b))
             /\ a.trackBearingTrueDeg =
                  IF status.variationDeg # Null
                    THEN Some(wrap360(b + Val(status.variationDeg))) ELSE Null
             /\ a.trackActive
             /\ a.mode = "APB"
             /\ a.targetMagDeg = Null
             /\ a.enabled = enabled
C11_Witness ==
  /\ lastOp = "hold_rhumb" /\ trackActive /\ mode = "APB"
  /\ trackStart = Some([lat |-> 0, lon |-> 1])
  /\ trackBearingMagDeg # Null /\ trackBearingTrueDeg # Null /\ targetMagDeg = Null

\* The degrees (in hundredths) a nudge command asks for
NudgeStep(c) ==
  CASE c = "p1" -> 100 [] c = "m1" -> -100 [] c = "p10" -> 1000 [] c = "m10" -> -1000

\* C12: a nudge by d acts on the active mode's target only: in heading hold
\* with a target it sets the target to wrap360(target + d) and leaves the
\* track fields alone; in track hold with an active track it sets the
\* magnetic bearing to wrap360(bearing + d), the true bearing to
\* wrap360(new bearing + variation) if the variation is known then and to
\* null otherwise, and leaves the target and the track start alone; it never
\* changes mode, enabled or the track's activity.
C12_NudgeActsOnActiveTarget ==
  router # Null =>
    \A c \in NudgeCommands : \A status \in cmdStatuses(c) :
      \A a \in {CmdAfter(c, JsUndefined, status)} :
        /\ a.mode = mode /\ a.enabled = enabled /\ a.trackActive = trackActive
        /\ (mode = "BOD" /\ targetMagDeg # Null)
             => /\ a.targetMagDeg = Some(wrap360(Val(targetMagDeg) + NudgeStep(c)))
                /\ a.trackStart = trackStart
                /\ a.trackBearingMagDeg = trackBearingMagDeg
                /\ a.trackBearingTrueDeg = trackBearingTrueDeg
        /\ (mode = "APB" /\ trackActive)
             => /\ a.trackBearingMagDeg
                     = Some(wrap360(Val(trackBearingMagDeg) + NudgeStep(c)))
                /\ a.trackBearingTrueDeg =
                     IF status.variationDeg # Null
                       THEN Some(wrap360(wrap360(Val(trackBearingMagDeg) + NudgeStep(c))
                                           + Val(status.variationDeg)))
                       ELSE Null
                /\ a.targetMagDeg = targetMagDeg
                /\ a.trackStart = trackStart
C12_Witness ==
  /\ lastOp = "m10" /\ mode = "APB" /\ trackActive
  /\ trackBearingMagDeg = Some(7500) /\ trackBearingTrueDeg # Null

\* C13: a tick with enabled true, the mode heading hold and a target hands
\* exactly one sentence to the sink; it is a BOD and no APB; its magnetic
\* field encodes the target; its true field encodes wrap360(target +
\* variation) when the tick reads a variation and is empty when it reads
\* none; lastSentence and lastEmitTs are set to that emission.
C13_BODEveryTick ==
  [][(HandlerRan("tick") /\ enabled /\ mode = "BOD" /\ targetMagDeg # Null)
       => /\ Len(out') = 1
          /\ IsBOD(out'[1]) /\ ~IsAPB(out'[1])
          /\ Field(out'[1], 4) = fmtDeg(Val(targetMagDeg))
          /\ Field(out'[1], 3) = <<"T">> /\ Field(out'[1], 5) = <<"M">>
          /\ lastSentence' = Some(text(SubSeq(out'[1], 1, Len(out'[1]) - 2)))
          /\ lastEmitTs' # Null
          /\ \A t \in liveTimers, snap \in TickSnapshots :
               Tick(t, snap) =>
                 /\ lastEmitTs' = Some(snap.now)
                 /\ \A variation \in {readAngleDeg(snap.store.variation)} :
                      Field(out'[1], 2) =
                        IF variation # Null
                          THEN fmtDeg(wrap360(Val(targetMagDeg) + Val(variation)))
                          ELSE <<>>]_vars
C13_Witness ==
  /\ lastOp = "tick" /\ enabled /\ mode = "BOD" /\ targetMagDeg = Some(4000)
  /\ Len(out) = 1 /\ IsBOD(out[1]) /\ Field(out[1], 2) = <<>>
  /\ Field(out[1], 4) = <<"0", "4", "0", ".", "0">>

\* C14: a tick with enabled true, the mode track hold, the track active and
\* a fresh position hands exactly one sentence to the sink; it is an APB and
\* no BOD; its magnetic heading-to-steer field is not empty and encodes the
\* track's magnetic bearing; its true field encodes wrap360(bearing +
\* variation) when the tick reads a variation and is empty otherwise; its
\* cross-track fields are those of computeXteNmAndSide for the track start,
\* the position read and the bearing.
C14_APBEveryTick ==
  [][(HandlerRan("tick") /\ enabled /\ mode = "APB" /\ trackActive)
       => \A t \in liveTimers, snap \in TickSnapshots :
            Tick(t, snap) =>
              \A status \in {computeStatus(snap.store, snap.now, t.gpsStaleSeconds)} :
                (status.position # Null /\ status.positionFresh)
                  => /\ Len(out') = 1
                     /\ IsAPB(out'[1]) /\ ~IsBOD(out'[1])
                     /\ Field(out'[1], 11) # <<>>
                     /\ Field(out'[1], 11) = fmtDeg(Val(trackBearingMagDeg))
                     /\ Field(out'[1], 9) =
                          IF status.variationDeg # Null
                            THEN fmtDeg(wrap360(Val(trackBearingMagDeg)
                                                  + Val(status.variationDeg)))
                            ELSE <<>>
                     /\ \A xte \in {computeXteNmAndSide(Val(trackStart),
                                                         Val(status.position),
                                                         Val(trackBearingMagDeg))} :
                          /\ Field(out'[1], 4) = fmtXteNm(xte.nm)
                          /\ Field(out'[1], 5) = <<xte.side>>
                     /\ lastSentence' = Some(text(SubSeq(out'[1], 1, Len(out'[1]) - 2)))
                     /\ lastEmitTs' = Some(snap.now)]_vars
C14_Witness ==
  /\ lastOp = "tick" /\ enabled /\ mode = "APB" /\ trackActive
  /\ Len(out) = 1 /\ IsAPB(out[1])
  /\ Field(out[1], 9) = <<>> /\ Field(out[1], 11) # <<>>
  /\ trackBearingTrueDeg # Null

\* A computeStatus applied on its own has returned; its argument, its result
\* and the readings it normalised
FuseDone == call.fn = "computeStatus" /\ call.res # Null
FuseArg == Val(call.arg)
FuseRes == Val(call.res)
Reading(path) == readAngleDeg(FuseArg.store[path])

\* C15: the fused COG is the direct magnetic COG if present; otherwise
\* wrap360(COG true - variation) if both are present; otherwise the direct
\* magnetic heading if present; otherwise null with no source.  The source
\* names the branch that produced the value.
C15_CogFallbackOrder ==
  FuseDone =>
    \A cogMag \in {Reading("cogMag")}, cogTrue \in {Reading("cogTrue")},
       hdgMag \in {Reading("hdgMag")}, variation \in {Reading("variation")} :
      IF cogMag # Null
        THEN /\ FuseRes.cogMagDeg = cogMag
             /\ FuseRes.cogMagSource = Some(PathCogMag)
      ELSE IF cogTrue # Null /\ variation # Null
        THEN /\ FuseRes.cogMagDeg = Some(wrap360(Val(cogTrue) - Val(variation)))
             /\ FuseRes.cogMagSource = Some(PathCogTrue \o " + variation")
      ELSE IF hdgMag # Null
        THEN /\ FuseRes.cogMagDeg = hdgMag
             /\ FuseRes.cogMagSource = Some(PathHdgMag \o " (fallback)")
      ELSE /\ FuseRes.cogMagDeg = Null
           /\ FuseRes.cogMagSource = Null
C15_Witness ==
  /\ FuseDone
  /\ FuseArg.store.cogMag = JsUndefined
  /\ FuseArg.store.cogTrue = JsNum(9000)
  /\ FuseArg.store.variation = JsNum(36500)
  /\ FuseArg.store.hdgMag = JsNum(157)
  /\ FuseRes.variationDeg = Some(500)
  /\ FuseRes.cogMagDeg = Some(8500)
  /\ FuseRes.cogMagSource = Some(PathCogTrue \o " + variation")

\* C16: the fused heading is the direct magnetic heading if present;
\* otherwise wrap360(heading true - variation) if both are present; otherwise
\* null with no source, whatever COG readings exist.
C16_HeadingFallbackOrder ==
  FuseDone =>
    \A hdgMag \in {Reading("hdgMag")}, hdgTrue \in {Reading("hdgTrue")},
       variation \in {Reading("variation")} :
      IF hdgMag # Null
        THEN /\ FuseRes.headingMagDeg = hdgMag
             /\ FuseRes.headingMagSource = Some(PathHdgMag)
      ELSE IF hdgTrue # Null /\ variation # Null
        THEN /\ FuseRes.headingMagDeg = Some(wrap360(Val(hdgTrue) - Val(variation)))
             /\ FuseRes.headingMagSource = Some(PathHdgTrue \o " + variation")
      ELSE /\ FuseRes.headingMagDeg = Null
           /\ FuseRes.headingMagSource = Null
C16_Witness ==
  /\ FuseDone
  /\ FuseArg.store.hdgMag = JsUndefined
  /\ FuseArg.store.hdgTrue = JsNum(9500)
  /\ FuseArg.store.variation = JsUndefined
  /\ FuseArg.store.cogMag = JsNum(8500)
  /\ FuseRes.cogMagDeg = Some(8500)
  /\ FuseRes.headingMagDeg = Null
  /\ FuseRes.headingMagSource = Null

\* The position entry handed to computeStatus holds a position with a finite
\* latitude and longitude
HasFinitePosition(entry) ==
  /\ entry.value.t = "object"
  /\ IsNumeric(entry.value.latitude)
  /\ IsNumeric(entry.value.longitude)

\* C17 (as stated): positionFresh is true exactly when a position with finite
\* latitude and longitude is present, its timestamp is available, and
\* now - timestampMs <= staleSeconds * 1000.
C17_FreshExactlyWhenTimely ==
  FuseDone =>
    \A entry \in {FuseArg.store.position} :
      FuseRes.positionFresh <=>
        /\ HasFinitePosition(entry)
        /\ entry.timestamp.t = "iso"
        /\ IsFinite(FuseArg.gpsStaleSeconds)
        /\ FuseArg.now - entry.timestamp.ms <= FuseArg.gpsStaleSeconds.n * 10

\* The period computation of start() applied on its own has returned
PeriodDone == call.fn = "startPeriod" /\ call.res # Null

\* C18 (as stated): for every configured rate, missing, zero, negative or
\* non-numeric ones included, the period start() schedules the tick with is a
\* number not below the minimum period of 100 ms.
C18_PeriodIsNumberAtLeastMinimum ==
  PeriodDone => /\ IsFinite(Val(call.res))
                /\ Val(call.res).n >= 10000

\* A wrap360 applied on its own has returned
WrapDone == call.fn = "wrap360" /\ call.res # Null
InCircle(a) == 0 <= a /\ a < 36000

\* C19 (as stated): for every angle a, wrap360(a) lies in [0,360) and
\* wrap360(wrap360(a)) = wrap360(a); hence every non-null angle of the fused
\* status lies in [0,360).
C19_Wrap360InRangeAndIdempotent ==
  /\ WrapDone => /\ InCircle(Val(call.res))
                 /\ wrap360(Val(call.res)) = Val(call.res)
  /\ FuseDone =>
       \A angle \in {FuseRes.variationDeg, FuseRes.cogMagDeg, FuseRes.headingMagDeg} :
         angle # Null => InCircle(Val(angle))

\* A computeXteNmAndSide applied on its own has returned; the offset of the
\* current position from the start, north and east
XteDone == call.fn = "computeXteNmAndSide" /\ call.res # Null
XteArg == Val(call.arg)
XteRes == Val(call.res)
North == XteArg.cur.lat - XteArg.start.lat
East == XteArg.cur.lon - XteArg.start.lon
\* Looking along a cardinal bearing, a pure north or east offset lies to the
\* right: east of a track 000, south of 090, west of 180, north of 270
RightOfTrack ==
  \/ XteArg.bearingMagDeg = 0 /\ North = 0 /\ East > 0
  \/ XteArg.bearingMagDeg = 9000 /\ East = 0 /\ North < 0
  \/ XteArg.bearingMagDeg = 18000 /\ North = 0 /\ East < 0
  \/ XteArg.bearingMagDeg = 27000 /\ East = 0 /\ North > 0
LeftOfTrack ==
  \/ XteArg.bearingMagDeg = 0 /\ North = 0 /\ East < 0
  \/ XteArg.bearingMagDeg = 9000 /\ East = 0 /\ North > 0
  \/ XteArg.bearingMagDeg = 18000 /\ North = 0 /\ East > 0
  \/ XteArg.bearingMagDeg = 27000 /\ East = 0 /\ North < 0

\* C20 (as stated): on the cardinal bearings with pure north or east offsets,
\* a current position right of the track gives side R and one left of it
\* side L, with a cross-track distance that is not zero.
C20_SideFollowsTrackSide ==
  XteDone =>
    /\ RightOfTrack => XteRes.side = "R" /\ XteRes.nm > 0
    /\ LeftOfTrack => XteRes.side = "L" /\ XteRes.nm > 0

\* The signed cross-track value of the applied computeXteNmAndSide, before
\* clamping; in hundredths of a nautical mile, its magnitude
XteSigned == xte_m(XteArg.start, XteArg.cur, XteArg.bearingMagDeg)
XteUnclamped == RoundDiv(Abs(XteSigned.milli), 18520)

\* C21: the distance returned by computeXteNmAndSide and the distance field
\* of APB lie in [0, 9.99]; a magnitude above 9.99 nm saturates to 9.99; the
\* side follows the sign of the unclamped value, clamped or not, and a value
\* of exactly 0 gives side R.
C21_DistanceClampedSideKept ==
  XteDone =>
    /\ 0 <= XteRes.nm /\ XteRes.nm <= 999
    /\ XteUnclamped > 999 => XteRes.nm = 999
    /\ XteUnclamped <= 999 => XteRes.nm = XteUnclamped
    /\ fmtXteNm(XteRes.nm) = toFixed2(XteRes.nm)
    /\ Len(fmtXteNm(XteRes.nm)) = 4
    /\ XteSigned.milli > 0 => XteRes.side = "R"
    /\ XteSigned.milli < 0 => XteRes.side = "L"
    /\ (XteSigned.milli = 0 /\ XteSigned.residual = 0) => XteRes.side = "R"
C21_Witness ==
  /\ XteDone
  /\ XteUnclamped > 5000
  /\ XteSigned.milli < 0
  /\ XteRes = [nm |-> 999, side |-> "L"]
  /\ fmtXteNm(XteRes.nm) = <<"9", ".", "9", "9">>

\* A sentence builder applied on its own has returned
SentenceDone == call.fn \in {"buildBOD", "buildAPB"} /\ call.res # Null
HexValue(ch) == CHOOSE i \in 0 .. 15 : HexChars[i + 1] = ch
\* sn is "$" + body + "*" + HH + CR LF, HH the two uppercase hexadecimal
\* digits of the exclusive or of the character codes of body
WellFormed(sn) ==
  /\ Len(sn) >= 6
  /\ sn[1] = "$"
  /\ sn[Len(sn) - 4] = "*"
  /\ sn[Len(sn) - 1] = "\r"
  /\ sn[Len(sn)] = "\n"
  /\ \A i \in 2 .. (Len(sn) - 5) : sn[i] \notin {"$", "*", "\r", "\n"}
  /\ \A i \in {Len(sn) - 3, Len(sn) - 2} : \E h \in 1 .. 16 : HexChars[h] = sn[i]
  /\ 16 * HexValue(sn[Len(sn) - 3]) + HexValue(sn[Len(sn) - 2])
       = XorCodes(SubSeq(sn, 2, Len(sn) - 5), 1)

\* C22: every sentence of buildBOD and buildAPB is "$" + body + "*" + HH +
\* CR LF, HH being two uppercase hexadecimal digits equal to the exclusive or
\* of the character codes of body.
C22_SentenceFramedWithChecksum == SentenceDone => WellFormed(Val(call.res))
C22_Witness ==
  /\ SentenceDone
  /\ call.fn = "buildAPB"
  /\ Val(call.arg).xteNm = 5000
  /\ Val(call.res) = <<"$", "G", "P", "A", "P", "B", ",", "A", ",", "A", ",",
                       "9", ".", "9", "9", ",", "L", ",", "N", ",", "A", ",", "A", ",",
                       "0", "0", "0", ".", "0", ",", "T", ",",
                       "0", "0", "8", ".", "3", ",", "M", ",",
                       "R", "H", "U", "M", "B", ",", ",", ",",
                       "*", "2", "F", "\r", "\n">>

\* C23: in every reachable state, a heading target and an active track never
\* exist together, also after a mode switch that clears neither.
C23_AtMostOneTarget == ~(targetMagDeg # Null /\ trackActive)
C23_Witness ==
  /\ lastOp = "mode_apb"
  /\ mode = "APB"
  /\ targetMagDeg # Null
  /\ ~trackActive
  /\ trackStart # Null

\* C24: every handler run leaves an active track with its start position and
\* magnetic bearing set, so that a tick, which runs between whole handler
\* runs, never finds an active track without them and never computes the
\* cross-track of an APB sentence from a null start.
C24_TickSeesWholeTrack ==
  [][/\ trackActive' => (trackStart' # Null /\ trackBearingMagDeg' # Null)
     /\ (HandlerRan("tick") /\ trackActive)
          => (trackStart # Null /\ trackBearingMagDeg # Null)
     /\ (HandlerRan("tick") /\ out' # <<>> /\ mode = "APB")
          => (trackActive /\ trackStart # Null /\ trackBearingMagDeg # Null)]_vars
C24_Witness ==
  /\ lastOp = "tick"
  /\ mode = "APB"
  /\ trackActive
  /\ trackStart # Null
  /\ trackBearingMagDeg # Null
  /\ Len(out) = 1
  /\ IsAPB(out[1])

\* The nudge that undoes nudge c
Opposite(c) ==
  CASE c = "p1" -> "m1" [] c = "m1" -> "p1" [] c = "p10" -> "m10" [] c = "m10" -> "p10"
\* The autopilot state after the handler has run for nudge c and then for its
\* opposite, both computing the same status
NudgedThereAndBack(c, status) ==
  cmdApply(cmdApply(AP, c, JsUndefined, status), Opposite(c), JsUndefined, status)

\* C25 (as stated): from any reachable state with a target for the active
\* mode, nudge(+d) followed by nudge(-d), d in {1, 10}, with the telemetry
\* unchanged in between, restores the heading target in heading hold, and
\* the magnetic and true track bearings in track hold, to exactly their
\* previous values.
C25_NudgesReversible ==
  router # Null =>
    \A c \in {"p1", "p10"} : \A status \in cmdStatuses(c) :
      \A a \in {NudgedThereAndBack(c, status)} :
        /\ (mode = "BOD" /\ targetMagDeg # Null) => a.targetMagDeg = targetMagDeg
        /\ (mode = "APB" /\ trackActive)
             => /\ a.trackBearingMagDeg = trackBearingMagDeg
                /\ a.trackBearingTrueDeg = trackBearingTrueDeg

====
